---------------------------- MODULE Spec2Model ----------------------------
(***************************************************************************)
(* ecpac: generation of C-PAC batch jobs.  The module models main() of     *)
(* src/ecpac/main.py: option/prompt collection with its validation loops,  *)
(* the expansion of pipelines x subjects into jobs, the resource policy,   *)
(* the file system plan (FsPlan), its sorting, display and application.    *)
(*                                                                         *)
(* Python strings are sequences of one-character strings, so that string   *)
(* comparison, splitting and formatting are computed character by          *)
(* character.  A pathlib path is a record [abs, parts].  Memory is a       *)
(* float in the program; here it is a rational counted in units of         *)
(* 1/MemScale GB.                                                          *)
(*                                                                         *)
(* Spec and PolicySpec run main() with SLACK_WEBHOOK_URL unset, HookSpec   *)
(* runs it with the variable unset, empty or set.  ApplySpec applies plans *)
(* of any FsPlan entries, and UnitsSpec renders memory requests and        *)
(* durations that have fractions of a megabyte and of a second.            *)
(***************************************************************************)
EXTENDS Integers, Sequences, FiniteSets, TLC

(***************************************************************************)
(* Bounds of the model                                                     *)
(***************************************************************************)
MaxThreads == 2
MemScale == 2
MaxMemoryGb == 4
MaxPipelines == 2
MaxSubjects == 2
SecScale == 2
MaxEntries == 2
GbBits == 4
MaxGbValue == 2
MaxHours == 1

(***************************************************************************)
(* Strings                                                                 *)
(***************************************************************************)
\* characters in code point order (Python compares strings by code point)
CodeOrder ==
    <<" ", "-", ".", "/", "0", "1", "2", "3", "4", "5", "6", "7", "8", "9",
      "F", "I", "N", "R", "T", "_", "a", "b", "c", "d", "e", "f", "g", "h",
      "i", "j", "k", "l", "m", "n", "o", "p", "q", "r", "s", "t", "u", "v",
      "w", "x", "y", "z">>

Ord == [c \in {CodeOrder[i] : i \in DOMAIN CodeOrder} |->
           CHOOSE i \in DOMAIN CodeOrder : CodeOrder[i] = c]

RECURSIVE StrLessFrom(_, _, _)
StrLessFrom(a, b, i) ==
    IF i > Len(b) THEN FALSE
    ELSE IF i > Len(a) THEN TRUE
    ELSE IF a[i] = b[i] THEN StrLessFrom(a, b, i + 1)
    ELSE Ord[a[i]] < Ord[b[i]]

\* a < b on Python strings
StrLess(a, b) == StrLessFrom(a, b, 1)

Max(a, b) == IF a >= b THEN a ELSE b

\* f"{n:03d}"
Digit(n) == CodeOrder[Ord["0"] + n]
Format03d(n) ==
    IF n < 1000
    THEN <<Digit(n \div 100), Digit((n \div 10) % 10), Digit(n % 10)>>
    ELSE <<Digit(n \div 1000)>> \o
         <<Digit((n \div 100) % 10), Digit((n \div 10) % 10), Digit(n % 10)>>

(***************************************************************************)
(* pathlib                                                                 *)
(***************************************************************************)
RECURSIVE SplitFrom(_, _, _, _)
\* the "/"-separated components of s; empty and "." components are dropped
SplitFrom(s, i, cur, acc) ==
    LET flush == IF cur = <<>> \/ cur = <<".">> THEN acc ELSE Append(acc, cur)
    IN  IF i > Len(s) THEN flush
        ELSE IF s[i] = "/" THEN SplitFrom(s, i + 1, <<>>, flush)
        ELSE SplitFrom(s, i + 1, Append(cur, s[i]), acc)

\* pl.Path(s)
ParsePath(s) ==
    [abs |-> Len(s) > 0 /\ s[1] = "/", parts |-> SplitFrom(s, 1, <<>>, <<>>)]

\* p / q
Join(p, q) ==
    IF q.abs THEN q ELSE [abs |-> p.abs, parts |-> p.parts \o q.parts]

\* p / name, name a string
Child(p, name) == Join(p, ParsePath(name))

RECURSIVE JoinParts(_, _)
JoinParts(parts, i) ==
    IF i > Len(parts) THEN <<>>
    ELSE (IF i > 1 THEN <<"/">> ELSE <<>>) \o parts[i] \o JoinParts(parts, i + 1)

\* str(p), p.as_posix()
AsPosix(p) ==
    IF p.abs THEN <<"/">> \o JoinParts(p.parts, 1)
    ELSE IF p.parts = <<>> THEN <<".">>
    ELSE JoinParts(p.parts, 1)

TOK_CWD == <<"/", "w">>

\* p.absolute(): the working directory is prepended to a relative path
Absolute(p) == IF p.abs THEN p ELSE Join(ParsePath(TOK_CWD), p)

\* index of the last "." of a name, 0 if there is none
RECURSIVE LastDot(_, _)
LastDot(name, i) ==
    IF i = 0 THEN 0 ELSE IF name[i] = "." THEN i ELSE LastDot(name, i - 1)

\* p.stem: the final component without its last suffix
Stem(p) ==
    IF p.parts = <<>> THEN <<>>
    ELSE LET name == p.parts[Len(p.parts)]
             dot  == LastDot(name, Len(name))
         IN  IF dot > 1 /\ dot < Len(name) THEN SubSeq(name, 1, dot - 1) ELSE name

\* p.parent
Parent(p) ==
    IF p.parts = <<>> THEN p
    ELSE [abs |-> p.abs, parts |-> SubSeq(p.parts, 1, Len(p.parts) - 1)]

(***************************************************************************)
(* Resource policy (main.py, "Adjust ressources for ACCESS limits")        *)
(* memory arguments are counted in units of 1/MemScale GB                  *)
(***************************************************************************)
\* math.ceil(n / d) for d > 0
CeilDiv(n, d) == IF n >= 0 THEN (n + d - 1) \div d ELSE -((-n) \div d)

\* res_memory_gb > (2 * res_threads)
MemoryBound(threads, memory_gb) == memory_gb > 2 * threads * MemScale

\* a variant that rounds memory_gb / 2 down
JobThreads_Floor(threads, memory_gb) ==
    IF MemoryBound(threads, memory_gb)
    THEN Max(memory_gb \div (2 * MemScale), 2)
    ELSE threads

JobThreads(threads, memory_gb) ==
    IF MemoryBound(threads, memory_gb)
    THEN Max(CeilDiv(memory_gb, 2 * MemScale), 2)
    ELSE threads

\* a variant that reserves the thread from the adjusted job threads
CpacThreads_Adjusted(threads, memory_gb) ==
    IF MemoryBound(threads, memory_gb)
    THEN Max(Max(CeilDiv(memory_gb, 2 * MemScale), 2) - 1, 1)
    ELSE Max(threads - 1, 1)

CpacThreads(threads, memory_gb) ==
    IF MemoryBound(threads, memory_gb)
    THEN Max(threads - 1, 1)
    ELSE Max(threads - 1, 1)

JobMemoryGb(memory_gb) == memory_gb

\* a variant without the floor of 1 GB
CpacMemoryGb_NoFloor(memory_gb) == memory_gb - 1 * MemScale

CpacMemoryGb(memory_gb) == Max(memory_gb - 1 * MemScale, 1 * MemScale)

\* utils.bridges_gb_to_mb
bridges_gb_to_mb(gb) == gb * 1000

(***************************************************************************)
(* Floats and their formatting.  A float is a rational n / scale: the      *)
(* operators take the numerator n and the scale.                           *)
(***************************************************************************)
\* str(n) of an int n >= 0
RECURSIVE str_int(_)
str_int(n) == IF n < 10 THEN <<Digit(n)>> ELSE str_int(n \div 10) \o <<Digit(n % 10)>>

\* round(x): to the nearest integer, a tie to the even one
round(n, scale) ==
    LET q == n \div scale
        r == n % scale
    IN  IF 2 * r < scale THEN q
        ELSE IF 2 * r > scale THEN q + 1
        ELSE IF q % 2 = 0 THEN q ELSE q + 1

\* f"{x:02.0f}": no digit behind the point (rounded as round() does), at
\* least two characters, padded with zeros
Format02_0f(n, scale) ==
    LET digits == str_int(round(n, scale))
    IN  IF Len(digits) < 2 THEN <<"0">> \o digits ELSE digits

\* the digits of the fraction r / scale, r < scale; one "0" if there is none
RECURSIVE FractionDigits(_, _)
FractionDigits(r, scale) ==
    LET d == (10 * r) \div scale
        rest == (10 * r) % scale
    IN  IF rest = 0 THEN <<Digit(d)>> ELSE <<Digit(d)>> \o FractionDigits(rest, scale)

\* str(x) of a float x >= 0 with a finite decimal expansion: "62.5", "500.0"
str_float(n, scale) ==
    str_int(n \div scale) \o <<".">> \o FractionDigits(n % scale, scale)

\* utils.timedelta_to_hms; s = t.total_seconds() is counted in 1/scale s
timedelta_to_hms(s, scale) ==
    Format02_0f(s \div (3600 * scale), 1) \o <<":">>
    \o Format02_0f((s % (3600 * scale)) \div (60 * scale), 1) \o <<":">>
    \o Format02_0f(s % (60 * scale), scale)


(***************************************************************************)
(* Constants of the program (consts.py) and the tokens a user may supply   *)
(***************************************************************************)
None == <<>>
Some(v) == <<v>>

CPAC_PRECONFIGS ==
    << <<"a", "b", "c", "d", "-", "o", "p", "t", "i", "o", "n", "s">>,
       <<"a", "b", "c", "d", "-", "p", "r", "e", "p">>,
       <<"a", "n", "a", "t", "-", "o", "n", "l", "y">>,
       <<"b", "e", "n", "c", "h", "m", "a", "r", "k", "-", "F", "N", "I", "R", "T">>,
       <<"b", "l", "a", "n", "k">>,
       <<"c", "c", "s", "-", "o", "p", "t", "i", "o", "n", "s">>,
       <<"d", "e", "f", "a", "u", "l", "t">>,
       <<"d", "e", "f", "a", "u", "l", "t", "-", "d", "e", "p", "r", "e", "c", "a", "t", "e", "d">>,
       <<"f", "m", "r", "i", "p", "r", "e", "p", "-", "o", "p", "t", "i", "o", "n", "s">>,
       <<"f", "x", "-", "o", "p", "t", "i", "o", "n", "s">>,
       <<"m", "o", "n", "k", "e", "y">>,
       <<"n", "d", "m", "g">>,
       <<"n", "h", "p", "-", "m", "a", "c", "a", "q", "u", "e">>,
       <<"p", "r", "e", "p", "r", "o", "c">>,
       <<"r", "b", "c", "-", "o", "p", "t", "i", "o", "n", "s">>,
       <<"r", "o", "d", "e", "n", "t">> >>

ID_PIPELINE_DEFAULT == <<"d", "e", "f", "a", "u", "l", "t">>
CPAC_ANALYSIS_LEVELS == <<"participant", "group", "test_config">>

NAME_OUTPUT == <<"o", "u", "t", "p", "u", "t">>
NAME_WD == <<"w", "d">>
NAME_JOB == <<"r", "u", "n", "_", "j", "o", "b", ".", "s", "h">>
NAME_STDOUT_LOG == <<"o", "u", "t", ".", "l", "o", "g">>
NAME_EXECUTOR == <<"r", "u", "n", ".", "s", "h">>
NAME_ECPAC_CALL == <<"e", "c", "p", "a", "c", "_", "c", "a", "l", "l", ".", "s", "h">>
SCHEBANG == "#!/usr/bin/bash"

TOK_RUN == <<"r", "1">>
TOK_IMAGE_OK == <<"/", "i", ".", "s", "i", "f">>
TOK_IMAGE_MISSING == <<"/", "x", ".", "s", "i", "f">>
TOK_INPUT_OK == <<"/", "i", "n">>
TOK_INPUT_MISSING == <<"/", "n", "o">>
TOK_CPAC_OK == <<"/", "c", "p">>
TOK_CPAC_INVALID == <<"/", "i", "n">>
TOK_SUBJECT_A == <<"s">>
TOK_SUBJECT_B == <<"s", "-", "1">>
TOK_SUBJECT_MISSING == <<"z", "z">>
TOK_OUTPUT_ABS == <<"/", "o">>
TOK_OUTPUT_REL == <<"r", "u", "n", "s">>
TOK_PRESET_A == <<"n", "d", "m", "g">>
TOK_PRESET_B == <<"b", "l", "a", "n", "k">>
TOK_CONFIG_OK == <<"c", "/", "p", ".", "y", "m", "l">>
TOK_CONFIG_MISSING == <<"c", "/", "q", ".", "y", "m", "l">>
REL_CPAC_RUN_PY ==
    <<"d", "e", "v", "/", "d", "o", "c", "k", "e", "r", "_", "d", "a", "t", "a",
      "/", "r", "u", "n", ".", "p", "y">>
REL_CPAC_RUN_FS ==
    <<"d", "e", "v", "/", "d", "o", "c", "k", "e", "r", "_", "d", "a", "t", "a",
      "/", "r", "u", "n", "-", "w", "i", "t", "h", "-", "f", "r", "e", "e", "s",
      "u", "r", "f", "e", "r", ".", "s", "h">>

\* sequences over S of length 1..n
SeqsUpTo(S, n) == UNION {[1..k -> S] : k \in 1..n}

\* the requests of the resource policy, and the one the plans are built for
Threads == 0..MaxThreads
Memories == 0..(MaxMemoryGb * MemScale + 1)
FewThreads == {1}
FewMemories == {3 * MemScale}
\* the default of the duration prompt: 48.0 hours
FewDurations == {48 * 3600 * SecScale}
ImageTokens == {TOK_IMAGE_OK, TOK_IMAGE_MISSING}
CpacTokens == {<<>>, TOK_CPAC_OK, TOK_CPAC_INVALID}
InputTokens == {TOK_INPUT_OK, TOK_INPUT_MISSING}
SubjectLists == SeqsUpTo({TOK_SUBJECT_A, TOK_SUBJECT_B, TOK_SUBJECT_MISSING}, MaxSubjects)
FewSubjectLists == {<<TOK_SUBJECT_A>>, <<TOK_SUBJECT_MISSING>>}
OutputTokens == {TOK_OUTPUT_ABS, TOK_OUTPUT_REL}
PipelineLists ==
    SeqsUpTo({TOK_PRESET_A, TOK_PRESET_B, TOK_CONFIG_OK, TOK_CONFIG_MISSING},
             MaxPipelines)
FewPipelineLists ==
    {<<TOK_PRESET_A>>, <<TOK_CONFIG_OK>>, <<TOK_CONFIG_MISSING>>,
     <<TOK_PRESET_A, TOK_CONFIG_OK>>}
AnalysisTokens == {"participant", "bogus"}

\* the flag of an option: absent, or one of the tokens
Flags(tokens) == {None} \cup {Some(t) : t \in tokens}

(***************************************************************************)
(* The file system.  EnvDirs and EnvFiles are what exists before the       *)
(* invocation; fs_dirs and fs_files are what the invocation has created.   *)
(* Paths on disk are absolute: the sequence of their components.           *)
(***************************************************************************)
OnDisk(tok) == Absolute(ParsePath(tok)).parts

Ancestors(parts) == {SubSeq(parts, 1, k) : k \in 0..Len(parts)}

EnvFiles ==
    {OnDisk(TOK_IMAGE_OK), OnDisk(TOK_CONFIG_OK),
     Child(ParsePath(TOK_CPAC_OK), REL_CPAC_RUN_PY).parts,
     Child(ParsePath(TOK_CPAC_OK), REL_CPAC_RUN_FS).parts}

EnvDirs ==
    UNION {Ancestors(d) :
           d \in {OnDisk(TOK_CWD),
                  Child(ParsePath(TOK_INPUT_OK), TOK_SUBJECT_A).parts,
                  Child(ParsePath(TOK_INPUT_OK), TOK_SUBJECT_B).parts}
                 \cup {SubSeq(f, 1, Len(f) - 1) : f \in EnvFiles}}

VARIABLES
    pc,                \* position in main()
    echo,              \* what the last step printed: "none", "error", "warning"
    arg_opt,           \* flag of the option being read: None or Some(value)
    run_id, res_threads, res_memory_gb,
    res_duration,      \* total seconds, counted in units of 1/SecScale s
    path_image, patch_cpac, path_cpac, path_input, subjects, path_output,
    pipeline_ids, use_preconfigs, analysis_level, save_working_dir,
    idx,               \* number of (pipeline, subject) pairs planned so far
    warnings,          \* number of memory-bound warnings printed
    fs_plans, job_paths,
    displayed,         \* the plan as listed to the user
    confirmed,         \* answer to "Create files + folders?"
    apply_i,           \* number of plan entries applied
    fs_dirs, fs_files, \* directories and files created on disk
    launched,          \* run.sh was started
    SLACK_WEBHOOK_URL, \* slack.py: os.environ.get("SLACK_WEBHOOK_URL")
    gb_value, td_value,\* a memory request and a duration to be rendered
    mb_text, hms_text  \* their renderings in the job's header

inputs == <<run_id, res_threads, res_memory_gb, res_duration, path_image, patch_cpac,
            path_cpac, path_input, subjects, path_output, pipeline_ids,
            use_preconfigs, analysis_level, save_working_dir>>
planning == <<idx, warnings, fs_plans, job_paths>>
applying == <<displayed, confirmed, apply_i, fs_dirs, fs_files, launched>>
environ == <<SLACK_WEBHOOK_URL>>
units == <<gb_value, td_value, mb_text, hms_text>>
vars == <<pc, echo, arg_opt, inputs, planning, applying, environ, units>>

NoPath == [abs |-> FALSE, parts |-> <<>>]

\* path.exists(), path.is_file(), path.is_dir()
IsFile(p) ==
    Absolute(p).parts \in EnvFiles \cup {f.path : f \in fs_files}
IsDir(p) ==
    Absolute(p).parts \in EnvDirs \cup fs_dirs
Exists(p) == IsFile(p) \/ IsDir(p)

\* cli.check_exist_file, cli.check_exist_dir
check_exist_file(p) == Exists(p) /\ IsFile(p)
check_exist_dir(p) == Exists(p) /\ IsDir(p)

\* utils.cpac_dir_valid
cpac_dir_valid(p) ==
    /\ Exists(p)
    /\ Exists(Child(p, REL_CPAC_RUN_PY))
    /\ Exists(Child(p, REL_CPAC_RUN_FS))

\* no option has been read
NothingRead ==
    /\ echo = "none"
    /\ arg_opt = None
    /\ run_id = <<>>
    /\ res_threads = 0
    /\ res_memory_gb = 0
    /\ res_duration = 0
    /\ path_image = NoPath
    /\ patch_cpac = FALSE
    /\ path_cpac = NoPath
    /\ path_input = NoPath
    /\ subjects = <<>>
    /\ path_output = NoPath
    /\ pipeline_ids = <<>>
    /\ use_preconfigs = FALSE
    /\ analysis_level = ""
    /\ save_working_dir = FALSE

\* main() is entered: nothing read, planned or written
Entered ==
    /\ pc = "start"
    /\ NothingRead
    /\ idx = 0
    /\ warnings = 0
    /\ fs_plans = <<>>
    /\ job_paths = <<>>
    /\ displayed = <<>>
    /\ confirmed = FALSE
    /\ apply_i = 0
    /\ fs_dirs = {}
    /\ fs_files = {}
    /\ launched = FALSE

\* nothing is handed to the unit conversions
NoUnits ==
    /\ gb_value = 0
    /\ td_value = 0
    /\ mb_text = None
    /\ hms_text = None

\* the environment variable SLACK_WEBHOOK_URL is not set
Init ==
    /\ Entered
    /\ SLACK_WEBHOOK_URL = None
    /\ NoUnits

\* the value of an option: the flag if given, else what the user types
option_or_prompt(opt, tokens) == IF opt # None THEN {opt[1]} ELSE tokens

(***************************************************************************)
(* main(): project directory check, run name and resources                 *)
(***************************************************************************)
CheckProject ==
    /\ pc = "start"
    /\ \E exists \in BOOLEAN, continue \in BOOLEAN :
          /\ exists => continue
          /\ echo' = IF exists THEN "none" ELSE "error"
          /\ pc' = IF continue THEN "resources" ELSE "done"
    /\ UNCHANGED <<environ, units, arg_opt, inputs, planning, applying>>

ReadResourcesFrom(threads, memories, durations) ==
    /\ pc = "resources"
    /\ run_id' = TOK_RUN
    /\ res_threads' \in threads
    /\ res_memory_gb' \in memories
    /\ res_duration' \in durations
    /\ pc' = "image"
    /\ echo' = "none"
    /\ arg_opt' \in Flags(ImageTokens)
    /\ UNCHANGED <<environ, units, path_image, patch_cpac, path_cpac, path_input, subjects,
                   path_output, pipeline_ids, use_preconfigs, analysis_level,
                   save_working_dir, planning, applying>>

(***************************************************************************)
(* main(): the validation loops.  Each action is one iteration of a        *)
(* `while True` loop: it reads the value, validates it, and either leaves   *)
(* the loop or prints an error and stays in it.                            *)
(***************************************************************************)
ReadResources == ReadResourcesFrom(FewThreads, FewMemories, FewDurations)
PolicyReadResources == ReadResourcesFrom(Threads, Memories, FewDurations)

\* "# Image"
ReadImage ==
    /\ pc = "image"
    /\ \E tok \in option_or_prompt(arg_opt, ImageTokens) :
          /\ path_image' = ParsePath(tok)
          /\ IF check_exist_file(ParsePath(tok))
             THEN /\ pc' = "cpac"
                  /\ echo' = "none"
                  /\ arg_opt' \in Flags(CpacTokens \ {<<>>})
             ELSE /\ pc' = "image"
                  /\ echo' = "error"
                  /\ arg_opt' = None
    /\ UNCHANGED <<environ, units, run_id, res_threads, res_memory_gb, res_duration, patch_cpac, path_cpac,
                   path_input, subjects, path_output, pipeline_ids,
                   use_preconfigs, analysis_level, save_working_dir,
                   planning, applying>>

\* "# C-PAC patching"
ReadCpac ==
    /\ pc = "cpac"
    /\ \E tok \in option_or_prompt(arg_opt, CpacTokens) :
          LET patch == arg_opt # None \/ Len(tok) # 0
              path  == IF patch THEN ParsePath(tok) ELSE ParsePath(<<>>)
          IN  /\ patch_cpac' = patch
              /\ path_cpac' = path
              /\ IF ~patch \/ cpac_dir_valid(path)
                 THEN /\ pc' = "input"
                      /\ echo' = "none"
                      /\ arg_opt' \in Flags(InputTokens)
                 ELSE /\ pc' = "cpac"
                      /\ echo' = "error"
                      /\ arg_opt' = arg_opt
    /\ UNCHANGED <<environ, units, run_id, res_threads, res_memory_gb, res_duration, path_image,
                   path_input, subjects, path_output, pipeline_ids,
                   use_preconfigs, analysis_level, save_working_dir,
                   planning, applying>>

\* "# Input directory"
ReadInputFrom(lists) ==
    /\ pc = "input"
    /\ \E tok \in option_or_prompt(arg_opt, InputTokens) :
          /\ path_input' = ParsePath(tok)
          /\ IF check_exist_dir(ParsePath(tok))
             THEN /\ pc' = "subjects"
                  /\ echo' = "none"
                  /\ arg_opt' \in Flags(lists)
             ELSE /\ pc' = "input"
                  /\ echo' = "error"
                  /\ arg_opt' = arg_opt
    /\ UNCHANGED <<environ, units, run_id, res_threads, res_memory_gb, res_duration, path_image, patch_cpac,
                   path_cpac, subjects, path_output, pipeline_ids,
                   use_preconfigs, analysis_level, save_working_dir,
                   planning, applying>>

ReadInput == ReadInputFrom(SubjectLists)
PolicyReadInput == ReadInputFrom(FewSubjectLists)

\* not_exist: the subjects without a directory in the input directory
NotExist(subs) ==
    SelectSeq(subs, LAMBDA sub : ~Exists(Child(path_input, sub)))

\* "# Subjects"
ReadSubjectsFrom(lists) ==
    /\ pc = "subjects"
    /\ \E subs \in option_or_prompt(arg_opt, lists) :
          /\ subjects' = subs
          /\ IF Len(NotExist(subs)) = 0
             THEN /\ pc' = "pipelines"
                  /\ echo' = "none"
                  /\ arg_opt' = None
             ELSE /\ pc' = "subjects"
                  /\ echo' = "error"
                  /\ arg_opt' = None
    /\ UNCHANGED <<environ, units, run_id, res_threads, res_memory_gb, res_duration, path_image, patch_cpac,
                   path_cpac, path_input, path_output, pipeline_ids,
                   use_preconfigs, analysis_level, save_working_dir,
                   planning, applying>>

ReadSubjects == ReadSubjectsFrom(SubjectLists)
PolicyReadSubjects == ReadSubjectsFrom(FewSubjectLists)

InList(x, list) == \E i \in DOMAIN list : list[i] = x

\* the tokens of a pipeline list that are presets / that are not
PreconfigIds(pipes) == SelectSeq(pipes, LAMBDA pipe : InList(pipe, CPAC_PRECONFIGS))
PipelineConfigFiles(pipes) == SelectSeq(pipes, LAMBDA pipe : ~InList(pipe, CPAC_PRECONFIGS))

\* "# Output directory", "# Pipeline configs"
ReadPipelinesFrom(outputs, lists) ==
    /\ pc = "pipelines"
    /\ \E out \in outputs, pipes \in lists :
          LET files   == PipelineConfigFiles(pipes)
              missing == \E i \in DOMAIN files : ~Exists(ParsePath(files[i]))
              mixed   == Len(PreconfigIds(pipes)) > 0 /\ Len(files) > 0
              preconf == Len(PreconfigIds(pipes)) > 0
          IN  /\ path_output' = ParsePath(out)
              /\ IF missing \/ mixed
                 THEN /\ pc' = "done"
                      /\ echo' = "error"
                      /\ pipeline_ids' = pipes
                      /\ UNCHANGED <<environ, units, use_preconfigs, arg_opt>>
                 ELSE /\ pc' = "analysis"
                      /\ echo' = "none"
                      /\ use_preconfigs' = preconf
                      /\ pipeline_ids' =
                            IF preconf THEN pipes
                            ELSE [i \in DOMAIN pipes |->
                                     AsPosix(Absolute(ParsePath(pipes[i])))]
                      /\ arg_opt' \in Flags(AnalysisTokens)
    /\ UNCHANGED <<environ, units, run_id, res_threads, res_memory_gb, res_duration, path_image, patch_cpac,
                   path_cpac, path_input, subjects, analysis_level,
                   save_working_dir, planning, applying>>

ReadPipelines == ReadPipelinesFrom(OutputTokens, PipelineLists)
PolicyReadPipelines == ReadPipelinesFrom({TOK_OUTPUT_REL}, FewPipelineLists)

\* "# Analysis level"
ReadAnalysisLevel ==
    /\ pc = "analysis"
    /\ \E tok \in option_or_prompt(arg_opt, AnalysisTokens) :
          /\ analysis_level' = tok
          /\ IF InList(tok, CPAC_ANALYSIS_LEVELS)
             THEN /\ pc' = "options"
                  /\ echo' = "none"
                  /\ arg_opt' = None
             ELSE /\ pc' = "analysis"
                  /\ echo' = "error"
                  /\ arg_opt' = arg_opt
    /\ UNCHANGED <<environ, units, run_id, res_threads, res_memory_gb, res_duration, path_image, patch_cpac,
                   path_cpac, path_input, subjects, path_output, pipeline_ids,
                   use_preconfigs, save_working_dir, planning, applying>>

\* "# Save C-PAC working dir", "# Extra cpac args"
ReadOptions ==
    /\ pc = "options"
    /\ save_working_dir' \in BOOLEAN
    /\ pc' = "plan"
    /\ echo' = "none"
    /\ UNCHANGED <<environ, units, arg_opt, run_id, res_threads, res_memory_gb, res_duration, path_image,
                   patch_cpac, path_cpac, path_input, subjects, path_output,
                   pipeline_ids, use_preconfigs, analysis_level,
                   planning, applying>>

(***************************************************************************)
(* main(): "# Plan out dirs and job files"                                 *)
(***************************************************************************)
RECURSIVE ProductFrom(_, _, _)
ProductFrom(a, b, i) ==
    IF i > Len(a) THEN <<>>
    ELSE [j \in 1..Len(b) |-> <<a[i], b[j]>>] \o ProductFrom(a, b, i + 1)

\* a variant in which the leftmost list advances fastest
RECURSIVE ProductLeftFrom(_, _, _)
ProductLeftFrom(a, b, j) ==
    IF j > Len(b) THEN <<>>
    ELSE [i \in 1..Len(a) |-> <<a[i], b[j]>>] \o ProductLeftFrom(a, b, j + 1)
Product_LeftFastest(a, b) == ProductLeftFrom(a, b, 1)

\* itertools.product(a, b): the rightmost list advances fastest
Product(a, b) == ProductFrom(a, b, 1)

\* the FsPlan dataclass
FsPlan(path, is_file, contents_text, make_executable) ==
    [path |-> path, is_file |-> is_file, contents_text |-> contents_text,
     make_executable |-> make_executable]

NoText == [kind |-> "none"]

(***************************************************************************)
(* Script texts.  A text is the sequence of its lines ("\n".join(lines)),  *)
(* a line is a sequence of pieces, and a piece is a literal followed by    *)
(* the value put in a replacement field (field "" when there is none).     *)
(***************************************************************************)
Lit(str) == [lit |-> str, field |-> "", value |-> <<>>]
Field(str, name) == [lit |-> str, field |-> name, value |-> <<>>]
Filled(str, name, v) == [lit |-> str, field |-> name, value |-> v]

\* the empty string, and the string "\n\n"
EmptyText == <<(<<>>)>>
TwoNewlines == <<(<<>>), <<>>, <<>>>>

\* a + b on strings: the last line of a goes on with the first line of b
Concat(a, b) ==
    SubSeq(a, 1, Len(a) - 1) \o <<a[Len(a)] \o b[1]>> \o Tail(b)

\* slack.py
TOK_WEBHOOK == <<"h", "/", "x">>
WebhookUrls == {None, Some(<<>>), Some(TOK_WEBHOOK)}

slack_webhook_available ==
    SLACK_WEBHOOK_URL # None /\ Len(SLACK_WEBHOOK_URL[1]) > 0

\* shlex.join(["curl", ..., "--data", json.dumps(data), SLACK_WEBHOOK_URL])
slack_message_bash(data) ==
    IF ~slack_webhook_available THEN EmptyText
    ELSE <<(<<Filled("curl -X POST -H 'Content-type: application/json' --data ",
                     "data", data),
              Filled(" ", "SLACK_WEBHOOK_URL", SLACK_WEBHOOK_URL[1])>>)>>

slack_message_bash_mrkdwn(text) == slack_message_bash([text |-> text])

\* consts.BASH_TEMPLATE_JOB: the backslash-newlines of the literal are line
\* continuations, so the container invocation is one line of the template
BASH_TEMPLATE_JOB ==
    <<(<<Lit("#!/usr/bin/bash")>>),
      <<Field("#SBATCH --job-name ", "job_name")>>,
      <<Field("#SBATCH --output ", "stdout_file")>>,
      <<Lit("#SBATCH --nodes 1")>>,
      <<Lit("#SBATCH --partition RM-shared")>>,
      <<Field("#SBATCH --time ", "duration_str")>>,
      <<Field("#SBATCH --ntasks-per-node ", "threads")>>,
      <<Field("#SBATCH --mem ", "memory_mb")>>,
      <<>>,
      <<Lit("set -x")>>,
      <<>>,
      <<Field("cd ", "wd")>>,
      <<>>,
      <<Field("singularity run --cleanenv ", "cpac_bin_opt"),
        Field(" -B ", "path_input"), Field(":", "path_input"),
        Field(":ro -B ", "path_output"), Field(":", "path_output"),
        Field(" ", "image"), Field(" ", "path_input"),
        Field(" ", "path_output"), Field(" ", "analysis_level"),
        Field(" --skip_bids_validator --n_cpus ", "cpac_threads"),
        Field(" --mem_gb ", "cpac_memory_gb"),
        Field(" --participant_label ", "subject"),
        Field(" ", "pipeline"), Field(" ", "extra_cpac_args")>>,
      <<>> >>

\* str.format(**kwargs): every replacement field of the template takes the
\* keyword argument of its name; keyword arguments that no field names are
\* not used
format(template, kwargs) ==
    [i \in DOMAIN template |->
        [k \in DOMAIN template[i] |->
            IF template[i][k].field = "" THEN template[i][k]
            ELSE Filled(template[i][k].lit, template[i][k].field,
                        kwargs[template[i][k].field])]]

\* pipe_id of the pair planned at index i
PipeId(pipe, i) ==
    IF use_preconfigs THEN pipe
    ELSE Format03d(i) \o <<"_">> \o Stem(ParsePath(pipe))

\* path_out = path_output / run_id / pipe_id / sub
PathOut(pipe, sub, i) ==
    Child(Child(Child(path_output, run_id), PipeId(pipe, i)), sub)

\* before_run: the command that reports the start of the job, and "\n\n"
BeforeRun(pipe, sub, i) ==
    IF slack_webhook_available
    THEN Concat(slack_message_bash_mrkdwn(
                    [title |-> "Starting ecpac run:", run |-> run_id,
                     pipeline |-> PipeId(pipe, i), subject |-> sub,
                     input |-> AsPosix(Absolute(path_input)),
                     output |-> AsPosix(Absolute(PathOut(pipe, sub, i))),
                     image |-> AsPosix(Absolute(path_image)),
                     threads |-> res_threads, memory |-> res_memory_gb,
                     analysis_level |-> analysis_level]),
                TwoNewlines)
    ELSE EmptyText

\* after_run: "\n\n" and the command that reports the end of the job
AfterRun(pipe, sub, i) ==
    IF slack_webhook_available
    THEN Concat(TwoNewlines,
                slack_message_bash_mrkdwn(
                    [title |-> "Finished ecpac run:", run |-> run_id,
                     pipeline |-> PipeId(pipe, i), subject |-> sub,
                     analysis_level |-> analysis_level,
                     output |-> AsPosix(Absolute(PathOut(pipe, sub, i)))]))
    ELSE EmptyText

\* the keyword arguments of consts.BASH_TEMPLATE_JOB.format(...); the text of
\* the script is format(BASH_TEMPLATE_JOB, JobText(pipe, sub, i))
JobText(pipe, sub, i) ==
    LET path_out == PathOut(pipe, sub, i)
    IN  [kind |-> "job",
         job_name |-> run_id \o <<"_">> \o PipeId(pipe, i) \o <<"_">> \o sub,
         stdout_file |-> AsPosix(Child(path_out, NAME_STDOUT_LOG)),
         cpac_bin_opt |-> IF patch_cpac THEN AsPosix(Absolute(path_cpac)) ELSE <<>>,
         wd |-> AsPosix(Absolute(path_out)),
         subject |-> sub,
         pipeline |-> <<IF use_preconfigs THEN "--preconfig" ELSE "--pipeline-file",
                        pipe>>,
         path_input |-> AsPosix(Absolute(path_input)),
         path_output |-> AsPosix(Absolute(Child(path_out, NAME_OUTPUT))),
         image |-> AsPosix(Absolute(path_image)),
         duration_str |-> timedelta_to_hms(res_duration, SecScale),
         threads |-> JobThreads(res_threads, res_memory_gb),
         memory_mb |-> bridges_gb_to_mb(JobMemoryGb(res_memory_gb)),
         cpac_threads |-> CpacThreads(res_threads, res_memory_gb),
         cpac_memory_gb |-> CpacMemoryGb(res_memory_gb),
         extra_cpac_args |->
             IF save_working_dir
             THEN <<"", "--save_working_dir", AsPosix(Absolute(Child(path_out, NAME_WD)))>>
             ELSE <<"">>,
         analysis_level |-> analysis_level,
         before_run |-> BeforeRun(pipe, sub, i),
         after_run |-> AfterRun(pipe, sub, i)]

(***************************************************************************)
(* bash_builder.py: job_template builds the script line by line.  main()   *)
(* does not call it.                                                       *)
(***************************************************************************)
buf_pad_before_if_not_empty(buf) == IF Len(buf) > 0 THEN <<(<<>>)>> \o buf ELSE buf
buf_pad_after_if_not_empty(buf) == IF Len(buf) > 0 THEN buf \o <<(<<>>)>> ELSE buf

\* one line "#SBATCH --<key> <value>" for each keyword
sbatch_header(keys, values) ==
    [k \in DOMAIN keys |-> <<Lit("#SBATCH --"), Filled("", keys[k], values[k])>>]

\* kw: the keyword arguments; before_run and after_run are lists of lines
job_template(kw) ==
    LET cpac_call_str ==
            <<Lit("singularity run --cleanenv")>>
            \o (IF kw.cpac_sources # None
                THEN <<Filled(" -B ", "cpac_sources", kw.cpac_sources[1])>>
                ELSE <<>>)
            \o <<Filled(" -B ", "path_input", kw.path_input),
                 Filled(":", "path_input", kw.path_input),
                 Filled(":ro -B ", "path_output", kw.path_output),
                 Filled(":", "path_output", kw.path_output),
                 Filled(" ", "path_image", kw.path_image),
                 Filled(" ", "path_input", kw.path_input),
                 Filled(" ", "path_output", kw.path_output),
                 Filled(" ", "analysis_level", kw.analysis_level),
                 Filled(" --skip_bids_validator --n_cpus ", "cpac_threads",
                        kw.cpac_threads),
                 Filled(" --mem_gb ", "cpac_memory_gb", kw.cpac_memory_gb),
                 Filled(" --participant_label ", "subject", kw.subject),
                 Filled(IF kw.pipeline_is_preconfig THEN " --preconfig "
                        ELSE " --pipeline-file ", "pipeline", kw.pipeline),
                 Filled(" ", "extra_cpac_args", kw.extra_cpac_args)>>
    IN  <<(<<Lit(SCHEBANG)>>)>>
        \o sbatch_header(
               <<"job-name", "output", "nodes", "partition", "time",
                 "ntasks-per-node", "mem">>,
               <<kw.job_name, kw.job_stdout_file, 1, "RM-shared",
                 timedelta_to_hms(kw.job_duration_limit, SecScale),
                 kw.job_threads, bridges_gb_to_mb(kw.job_memory_gb)>>)
        \o <<(<<>>), <<Lit("set -x")>>, <<>>,
             <<Filled("cd ", "wd", kw.wd), Lit(" || exit")>>, <<>> >>
        \o buf_pad_after_if_not_empty(kw.before_run)
        \o <<cpac_call_str>>
        \o buf_pad_before_if_not_empty(kw.after_run)
        \o <<(<<>>)>>

\* a variant that plans the working directory whether asked for or not
JobPlans_AlwaysWd(pipe, sub, i) ==
    LET path_out == PathOut(pipe, sub, i)
    IN  <<FsPlan(Child(path_out, NAME_JOB), TRUE, JobText(pipe, sub, i), TRUE),
          FsPlan(Child(path_out, NAME_OUTPUT), FALSE, NoText, FALSE),
          FsPlan(Child(path_out, NAME_WD), FALSE, NoText, FALSE)>>

\* the entries one iteration of the loop appends to fs_plans
JobPlans(pipe, sub, i) ==
    LET path_out == PathOut(pipe, sub, i)
    IN  <<FsPlan(Child(path_out, NAME_JOB), TRUE, JobText(pipe, sub, i), TRUE),
          FsPlan(Child(path_out, NAME_OUTPUT), FALSE, NoText, FALSE)>>
        \o (IF save_working_dir
            THEN <<FsPlan(Child(path_out, NAME_WD), FALSE, NoText, FALSE)>>
            ELSE <<>>)

\* one iteration of `for idx, (pipe, sub) in enumerate(itertools.product(...))`
PlanJob ==
    /\ pc = "plan"
    /\ idx < Len(Product(pipeline_ids, subjects))
    /\ LET pair == Product(pipeline_ids, subjects)[idx + 1]
           pipe == pair[1]
           sub  == pair[2]
       IN  /\ fs_plans' = fs_plans \o JobPlans(pipe, sub, idx)
           /\ job_paths' = Append(job_paths, Child(PathOut(pipe, sub, idx), NAME_JOB))
           /\ IF MemoryBound(res_threads, res_memory_gb)
              THEN warnings' = warnings + 1 /\ echo' = "warning"
              ELSE warnings' = warnings /\ echo' = "none"
    /\ idx' = idx + 1
    /\ pc' = "plan"
    /\ UNCHANGED <<environ, units, arg_opt, inputs, applying>>

\* executor = f"#!/usr/bin/bash\n{sbatches}": the lines of the script
ExecutorText(paths) ==
    [kind |-> "executor",
     lines |-> <<[cmd |-> SCHEBANG, arg |-> <<>>]>>
               \o [k \in DOMAIN paths |-> [cmd |-> "sbatch", arg |-> AsPosix(paths[k])]]]

\* shlex.join(reargs): the flags of the equivalent call
CallText ==
    [kind |-> "ecpac_call",
     input |-> AsPosix(path_input), output |-> AsPosix(path_output),
     image |-> AsPosix(path_image), subject |-> subjects,
     pipeline |-> pipeline_ids, analysis_level |-> analysis_level,
     cpac |-> IF patch_cpac THEN AsPosix(path_cpac) ELSE <<>>,
     memory_gb |-> res_memory_gb, threads |-> res_threads,
     save_working_dir |-> save_working_dir]

\* a variant that plans the executor file before the jobs' entries
PlanExecutor_First ==
    /\ pc = "plan"
    /\ idx = Len(Product(pipeline_ids, subjects))
    /\ fs_plans' =
          Append(<<FsPlan(Child(Child(path_output, run_id), NAME_EXECUTOR),
                          TRUE, ExecutorText(job_paths), TRUE)>> \o fs_plans,
                 FsPlan(Child(Child(path_output, run_id), NAME_ECPAC_CALL),
                        TRUE, CallText, TRUE))
    /\ pc' = "display"
    /\ echo' = "none"
    /\ UNCHANGED <<environ, units, arg_opt, inputs, idx, warnings, job_paths, applying>>

\* "# Plan executor file", "# Add reproducible ecpac call"
PlanExecutor ==
    /\ pc = "plan"
    /\ idx = Len(Product(pipeline_ids, subjects))
    /\ fs_plans' =
          Append(Append(fs_plans,
                        FsPlan(Child(Child(path_output, run_id), NAME_EXECUTOR),
                               TRUE, ExecutorText(job_paths), TRUE)),
                 FsPlan(Child(Child(path_output, run_id), NAME_ECPAC_CALL),
                        TRUE, CallText, TRUE))
    /\ pc' = "display"
    /\ echo' = "none"
    /\ UNCHANGED <<environ, units, arg_opt, inputs, idx, warnings, job_paths, applying>>

(***************************************************************************)
(* main(): "# User sanity check"                                           *)
(***************************************************************************)
\* key=lambda i: i.path.absolute().as_posix()
SortKey(plan) == AsPosix(Absolute(plan.path))

\* sorted() computes the key of every element once: the pairs <<key, element>>
RECURSIVE Keyed(_, _)
Keyed(plans, i) ==
    IF i > Len(plans) THEN <<>>
    ELSE <<(<<SortKey(plans[i]), plans[i]>>)>> \o Keyed(plans, i + 1)

\* insert e behind the elements of the sorted list whose key is not greater
Insert(sorted, e) ==
    LET k == Cardinality({i \in DOMAIN sorted : ~StrLess(e[1], sorted[i][1])})
    IN  SubSeq(sorted, 1, k) \o <<e>> \o SubSeq(sorted, k + 1, Len(sorted))

RECURSIVE SortFrom(_, _, _)
SortFrom(keyed, i, acc) ==
    IF i > Len(keyed) THEN acc ELSE SortFrom(keyed, i + 1, Insert(acc, keyed[i]))

\* the elements of the pairs
RECURSIVE Unkeyed(_, _)
Unkeyed(keyed, i) ==
    IF i > Len(keyed) THEN <<>> ELSE <<keyed[i][2]>> \o Unkeyed(keyed, i + 1)

\* a variant that leaves the plan in the order of its assembly
SortPlans_Unsorted(plans) == plans

\* sorted(fs_plans, key=...): ascending by key, stable
SortPlans(plans) == Unkeyed(SortFrom(Keyed(plans, 1), 1, <<>>), 1)

\* the line printed for a plan entry
PlanLine(plan) ==
    [label_type |-> IF plan.is_file THEN "F" ELSE "D",
     label_executable |-> IF plan.make_executable THEN "x" ELSE " ",
     path |-> AsPosix(plan.path)]

\* sort the plan and list it
DisplayPlan ==
    /\ pc = "display"
    /\ fs_plans' = SortPlans(fs_plans)
    /\ displayed' = [i \in DOMAIN fs_plans' |-> PlanLine(fs_plans'[i])]
    /\ pc' = "confirm"
    /\ echo' = "none"
    /\ UNCHANGED <<environ, units, arg_opt, inputs, idx, warnings, job_paths,
                   confirmed, apply_i, fs_dirs, fs_files, launched>>

\* a variant that goes on to apply the plan whatever the answer
ConfirmCreate_Ignored ==
    /\ pc = "confirm"
    /\ \E preview \in BOOLEAN, create \in BOOLEAN :
          /\ confirmed' = create
          /\ pc' = "apply"
    /\ echo' = "none"
    /\ UNCHANGED <<environ, units, arg_opt, inputs, planning, displayed, apply_i, fs_dirs,
                   fs_files, launched>>

\* "Preview example job?" (prints only), "Create files + folders?"
ConfirmCreate ==
    /\ pc = "confirm"
    /\ \E preview \in BOOLEAN, create \in BOOLEAN :
          /\ confirmed' = create
          /\ pc' = IF create THEN "apply" ELSE "done"
    /\ echo' = "none"
    /\ UNCHANGED <<environ, units, arg_opt, inputs, planning, displayed, apply_i, fs_dirs,
                   fs_files, launched>>

(***************************************************************************)
(* FsPlan.apply                                                            *)
(***************************************************************************)
\* mkdir(parents=True, exist_ok=True): the directories on disk afterwards
Mkdirs(dirs, p) == dirs \cup (Ancestors(Absolute(p).parts) \ EnvDirs)

\* mkdir(parents=True, exist_ok=True) raises only if the path or one of its
\* parents is a file; a directory that exists is accepted
MkdirAccepts(files, p) ==
    \A a \in Ancestors(Absolute(p).parts) :
        a \notin EnvFiles \cup {f.path : f \in files}

\* open(path, "w") raises if the path is a directory
OpenAccepts(dirs, p) == Absolute(p).parts \notin EnvDirs \cup dirs

\* the permission bits of a file that open() creates: 0o666 under umask 0o022
CreateMode == {"S_IRUSR", "S_IWUSR", "S_IRGRP", "S_IROTH"}

\* the permission bits of the file at path, or of a new file
ModeAt(files, path) ==
    IF \E f \in files : f.path = path
    THEN UNION {f.mode : f \in {g \in files : g.path = path}}
    ELSE CreateMode

\* a variant that opens the file with "a": the text is added at the end
WriteText_Append(files, p, txt) ==
    LET path == Absolute(p).parts
        old  == {f \in files : f.path = path}
    IN  (files \ old) \cup
        {[path |-> path,
          contents |-> IF old = {} THEN <<txt>>
                       ELSE (CHOOSE f \in old : TRUE).contents \o <<txt>>,
          mode |-> ModeAt(files, path)]}

\* open(path, "w") and write: the file is cut to nothing and holds the text
\* that is written; the mode of a file that exists is kept
WriteText(files, p, txt) ==
    LET path == Absolute(p).parts
        old  == {f \in files : f.path = path}
    IN  (files \ old) \cup
        {[path |-> path, contents |-> <<txt>>, mode |-> ModeAt(files, path)]}

\* chmod(st_mode | S_IEXEC)
Chmod(files, p) ==
    LET path == Absolute(p).parts
    IN  {IF f.path = path THEN [f EXCEPT !.mode = @ \cup {"S_IEXEC"}] ELSE f :
         f \in files}

\* the disk after plan.apply() has returned
ApplyDirs(plan, dirs) ==
    IF plan.is_file THEN Mkdirs(dirs, Parent(plan.path)) ELSE Mkdirs(dirs, plan.path)
ApplyFiles(plan, files) ==
    IF plan.is_file
    THEN LET written == WriteText(files, plan.path, plan.contents_text)
         IN  IF plan.make_executable THEN Chmod(written, plan.path) ELSE written
    ELSE files

\* plan.apply() does not raise because of what is on disk
ApplyAccepts(plan, dirs, files) ==
    IF plan.is_file
    THEN /\ MkdirAccepts(files, Parent(plan.path))
         /\ OpenAccepts(dirs, plan.path)
    ELSE MkdirAccepts(files, plan.path)

\* the disk after plan.apply() has raised: <<dirs, files>> for each place
\* where the failure can occur (mkdir, open, chmod)
ApplyFailures(plan, dirs, files) ==
    {<<dirs, files>>}
    \cup (IF plan.is_file THEN {<<ApplyDirs(plan, dirs), files>>} ELSE {})
    \cup (IF plan.is_file /\ plan.make_executable
          THEN {<<ApplyDirs(plan, dirs),
                  WriteText(files, plan.path, plan.contents_text)>>}
          ELSE {})

\* one iteration of `for plan in fs_plans: plan.apply()`
ApplyPlan ==
    /\ pc = "apply"
    /\ apply_i < Len(fs_plans)
    /\ ApplyAccepts(fs_plans[apply_i + 1], fs_dirs, fs_files)
    /\ fs_dirs' = ApplyDirs(fs_plans[apply_i + 1], fs_dirs)
    /\ fs_files' = ApplyFiles(fs_plans[apply_i + 1], fs_files)
    /\ apply_i' = apply_i + 1
    /\ pc' = IF apply_i + 1 = Len(fs_plans) THEN "launch" ELSE "apply"
    /\ echo' = "none"
    /\ UNCHANGED <<environ, units, arg_opt, inputs, planning, displayed, confirmed, launched>>

\* a variant that reports the failure and goes on with the next entry
ApplyRaises_Caught ==
    /\ pc = "apply"
    /\ apply_i < Len(fs_plans)
    /\ \E disk \in ApplyFailures(fs_plans[apply_i + 1], fs_dirs, fs_files) :
          /\ fs_dirs' = disk[1]
          /\ fs_files' = disk[2]
    /\ apply_i' = apply_i + 1
    /\ pc' = IF apply_i + 1 = Len(fs_plans) THEN "launch" ELSE "apply"
    /\ echo' = "error"
    /\ UNCHANGED <<environ, units, arg_opt, inputs, planning, displayed, confirmed, launched>>

\* plan.apply() raises OSError: main() is left by the exception
ApplyRaises ==
    /\ pc = "apply"
    /\ apply_i < Len(fs_plans)
    /\ \E disk \in ApplyFailures(fs_plans[apply_i + 1], fs_dirs, fs_files) :
          /\ fs_dirs' = disk[1]
          /\ fs_files' = disk[2]
    /\ pc' = "raised"
    /\ echo' = "error"
    /\ UNCHANGED <<environ, units, arg_opt, inputs, planning, displayed, confirmed, apply_i,
                   launched>>

\* "Launch now?"
Launch ==
    /\ pc = "launch"
    /\ launched' \in BOOLEAN
    /\ pc' = "done"
    /\ echo' = "none"
    /\ UNCHANGED <<environ, units, arg_opt, inputs, planning, displayed, confirmed, apply_i,
                   fs_dirs, fs_files>>

Next ==
    \/ CheckProject
    \/ ReadResources
    \/ ReadImage
    \/ ReadCpac
    \/ ReadInput
    \/ ReadSubjects
    \/ ReadPipelines
    \/ ReadAnalysisLevel
    \/ ReadOptions
    \/ PlanJob
    \/ PlanExecutor
    \/ DisplayPlan
    \/ ConfirmCreate
    \/ ApplyPlan
    \/ ApplyRaises
    \/ Launch

Spec == Init /\ [][Next]_vars

\* the same program, run on every resource request and on few lists
PolicyNext ==
    \/ CheckProject
    \/ PolicyReadResources
    \/ ReadImage
    \/ ReadCpac
    \/ PolicyReadInput
    \/ PolicyReadSubjects
    \/ PolicyReadPipelines
    \/ ReadAnalysisLevel
    \/ ReadOptions
    \/ PlanJob
    \/ PlanExecutor
    \/ DisplayPlan
    \/ ConfirmCreate
    \/ ApplyPlan
    \/ ApplyRaises
    \/ Launch

PolicySpec == Init /\ [][PolicyNext]_vars

(***************************************************************************)
(* FsPlan.apply on its own: plans of any entries, applied to a disk that   *)
(* may hold a file from before                                             *)
(***************************************************************************)
TOK_ENTRY_DIR == <<"/", "o", "/", "a">>
TOK_ENTRY_FILE == <<"/", "o", "/", "a", "/", "b">>
EntryPaths == {ParsePath(TOK_ENTRY_DIR), ParsePath(TOK_ENTRY_FILE)}
EntryTexts == {[kind |-> "a"], [kind |-> "b"]}

\* FsPlan(path, is_file, contents_text=None, make_executable=False)
Entries ==
    {FsPlan(p, FALSE, NoText, FALSE) : p \in EntryPaths}
    \cup {FsPlan(p, TRUE, txt, x) : p \in EntryPaths, txt \in EntryTexts, x \in BOOLEAN}

\* the disk before: nothing, or a file, of any of some modes, at the path of
\* an entry
OldFiles ==
    {{}} \cup
    {{[path |-> Absolute(ParsePath(TOK_ENTRY_FILE)).parts,
       contents |-> <<[kind |-> "old"]>>, mode |-> m]} :
     m \in {CreateMode, CreateMode \cup {"S_IXGRP"}, {"S_IRUSR", "S_IEXEC"}}}

ApplyInit ==
    /\ pc = "apply"
    /\ NothingRead
    /\ idx = 0
    /\ warnings = 0
    /\ fs_plans \in SeqsUpTo(Entries, MaxEntries)
    /\ job_paths = <<>>
    /\ displayed = <<>>
    /\ confirmed = TRUE
    /\ apply_i = 0
    /\ fs_files \in OldFiles
    /\ fs_dirs = IF fs_files = {} THEN {}
                 ELSE Mkdirs({}, Parent(ParsePath(TOK_ENTRY_FILE)))
    /\ launched = FALSE
    /\ SLACK_WEBHOOK_URL = None
    /\ NoUnits

ApplyNext ==
    \/ ApplyPlan
    \/ ApplyRaises

ApplySpec == ApplyInit /\ [][ApplyNext]_vars

(***************************************************************************)
(* The unit conversions of the job header on their own: a memory request   *)
(* in units of 1/GbScale GB and a duration in units of 1/SecScale s are    *)
(* rendered as the "#SBATCH --mem" and "#SBATCH --time" values             *)
(***************************************************************************)
GbScale == 2 ^ GbBits
GbValues == 1..(MaxGbValue * GbScale)

\* timedelta(hours=float(...)).total_seconds(): whole hours, minutes and
\* seconds and a fraction of a second
DurationValues ==
    {((h * 3600 + m * 60 + sec) * SecScale) + f :
        h \in 0..MaxHours, m \in {0, 59}, sec \in {0, 1, 59}, f \in 0..(SecScale - 1)}

UnitsInit ==
    /\ Entered
    /\ SLACK_WEBHOOK_URL = None
    /\ gb_value \in GbValues
    /\ td_value \in DurationValues
    /\ mb_text = None
    /\ hms_text = None

\* memory_mb=utils.bridges_gb_to_mb(job_memory_gb), put in "{memory_mb}"
RenderMemory ==
    /\ mb_text = None
    /\ mb_text' = Some(str_float(bridges_gb_to_mb(JobMemoryGb(gb_value)), GbScale))
    /\ UNCHANGED <<pc, echo, arg_opt, inputs, planning, applying, environ,
                   gb_value, td_value, hms_text>>

\* duration_str=utils.timedelta_to_hms(res_duration), put in "{duration_str}"
RenderDuration ==
    /\ hms_text = None
    /\ hms_text' = Some(timedelta_to_hms(td_value, SecScale))
    /\ UNCHANGED <<pc, echo, arg_opt, inputs, planning, applying, environ,
                   gb_value, td_value, mb_text>>

UnitsNext ==
    \/ RenderMemory
    \/ RenderDuration

UnitsSpec == UnitsInit /\ [][UnitsNext]_vars

\* the same program, started with the environment variable SLACK_WEBHOOK_URL
\* unset, empty or set
HookInit ==
    /\ Entered
    /\ SLACK_WEBHOOK_URL \in WebhookUrls
    /\ NoUnits

HookSpec == HookInit /\ [][PolicyNext]_vars

(***************************************************************************)
(* Properties                                                              *)
(***************************************************************************)
\* the texts of the job scripts planned so far
JobTexts ==
    {fs_plans[i].contents_text : i \in {j \in DOMAIN fs_plans :
                                          fs_plans[j].contents_text.kind = "job"}}

\* the request is memory-bound: more than 2 GB per thread
IsMemoryBound == res_memory_gb > 2 * MemScale * res_threads

\* C1: for threads > 0 and memory_gb > 0 every planned job gives the
\* container at least 1 thread and at least 1 GB, and requests from the
\* scheduler exactly the memory asked for (at 1000 MB per GB).
C1_ResourceFloors ==
    (res_threads > 0 /\ res_memory_gb > 0) =>
        \A job \in JobTexts :
            /\ job.cpac_threads >= 1
            /\ job.cpac_memory_gb >= MemScale
            /\ job.memory_mb = 1000 * res_memory_gb

\* a job planned for a positive request below 2 GB, where the floor acts
C1_Witness ==
    /\ res_threads > 0
    /\ res_memory_gb > 0
    /\ res_memory_gb < 2 * MemScale
    /\ JobTexts # {}

\* C2: a job asks for max(ceil(memory_gb / 2), 2) threads, with one warning
\* per job, exactly when memory_gb > 2 * threads; else for the requested
\* threads without warning.  The step that warns stays in the planning loop.
C2_JobThreadsAndWarning ==
    /\ \A job \in JobTexts :
          IF IsMemoryBound
          THEN \E n \in 2..(MaxMemoryGb + 2) :
                  /\ job.threads = n
                  /\ 2 * MemScale * n >= res_memory_gb
                  /\ (n > 2 => 2 * MemScale * (n - 1) < res_memory_gb)
          ELSE job.threads = res_threads
    /\ warnings = IF IsMemoryBound THEN idx ELSE 0
    /\ (echo = "warning" => pc = "plan" /\ idx > 0 /\ JobTexts # {})

\* a memory-bound job whose thread count is a rounded-up half
C2_Witness ==
    /\ IsMemoryBound
    /\ res_memory_gb % (2 * MemScale) # 0
    /\ res_memory_gb > 4 * MemScale
    /\ echo = "warning"
    /\ pc = "plan"

\* C3: the container always gets max(threads - 1, 1) threads, counted from
\* the requested threads, whether or not the job threads were adjusted.
C3_ContainerThreads ==
    \A job \in JobTexts :
        job.cpac_threads = IF res_threads - 1 >= 1 THEN res_threads - 1 ELSE 1

\* a memory-bound job whose container gets fewer than job threads - 1
C3_Witness ==
    /\ IsMemoryBound
    /\ res_threads > 0
    /\ \E job \in JobTexts : job.cpac_threads < job.threads - 1

\* the final component of a path
Name(p) == p.parts[Len(p.parts)]

DiskUntouched == fs_dirs = {} /\ fs_files = {}

\* C4: nothing is created before the user confirms: while the disk has been
\* touched, the sorted plan has been listed and "Create files + folders?"
\* was answered yes; a run that ended without that answer wrote nothing.
C4_NothingWrittenBeforeConfirm ==
    /\ (~DiskUntouched \/ apply_i > 0 \/ launched) =>
          /\ confirmed
          /\ Len(displayed) = Len(fs_plans)
          /\ Len(displayed) > 0
          /\ pc \in {"apply", "launch", "raised", "done"}
    /\ (pc = "done" /\ ~confirmed) => DiskUntouched /\ apply_i = 0

\* the plan was listed and the user declined to create it
C4_Witness ==
    /\ pc = "done"
    /\ ~confirmed
    /\ Len(displayed) > 0
    /\ DiskUntouched

\* the validation loops of main()
ValidationLoops == {"image", "cpac", "input", "subjects", "analysis"}

\* C5: a value that fails validation is not validated again: after the
\* error the invocation is over, or the flag is dropped and the value is
\* asked for.
C5_RejectedValueNotRevalidated ==
    [][(pc \in ValidationLoops /\ echo' = "error")
          => (pc' = "done" \/ arg_opt' = None)]_vars

\* entries of the plan by role
IsJobScript(plan) == Name(plan.path) = NAME_JOB
IsOutputDir(plan) == Name(plan.path) = NAME_OUTPUT
IsWorkingDir(plan) == Name(plan.path) = NAME_WD
IsExecutor(plan) == Name(plan.path) = NAME_EXECUTOR
IsEcpacCall(plan) == Name(plan.path) = NAME_ECPAC_CALL
IsJobEntry(plan) == IsJobScript(plan) \/ IsOutputDir(plan) \/ IsWorkingDir(plan)

\* C6 as claimed: when the plan is assembled, run.sh is its last entry.
C6_ExecutorAddedLast ==
    pc = "display" => IsExecutor(fs_plans[Len(fs_plans)])

\* C6 amended: when the plan is assembled, run.sh stands behind every entry
\* of the jobs, and the one entry behind it is ecpac_call.sh; no entry is
\* added once the plan is assembled.
C6_ExecutorAfterJobEntries ==
    /\ [](pc = "display" =>
            /\ Len(fs_plans) >= 2
            /\ IsExecutor(fs_plans[Len(fs_plans) - 1])
            /\ IsEcpacCall(fs_plans[Len(fs_plans)])
            /\ \A i \in 1..(Len(fs_plans) - 2) : IsJobEntry(fs_plans[i]))
    /\ [](pc = "plan" => \A i \in DOMAIN fs_plans : IsJobEntry(fs_plans[i]))
    /\ [][pc # "plan" => Len(fs_plans') = Len(fs_plans)]_vars

\* a plan assembled for several jobs, before it is sorted
C6_Witness ==
    /\ pc = "display"
    /\ idx >= 2
    /\ Len(fs_plans) >= 6

\* the plan has been sorted and listed
Listed == pc \in {"confirm", "apply", "launch", "raised"} \/ (pc = "done" /\ displayed # <<>>)

\* the expansion is over and run.sh and ecpac_call.sh are planned
Assembled == pc = "display" \/ Listed

\* as_posix() of absolute(), computed on the components
AbsolutePosix(p) ==
    IF p.abs THEN AsPosix(p) ELSE TOK_CWD \o <<"/">> \o AsPosix(p)

\* the absolute path strings of the entries of a plan
RECURSIVE AbsolutePosixOf(_, _)
AbsolutePosixOf(plans, i) ==
    IF i > Len(plans) THEN <<>>
    ELSE <<AbsolutePosix(plans[i].path)>> \o AbsolutePosixOf(plans, i + 1)

\* no string of the list is less than the one before it
Ascending(strs) == \A i \in 1..(Len(strs) - 1) : ~StrLess(strs[i + 1], strs[i])

\* C7: when the plan is listed it is in ascending order of the absolute
\* path strings, and the lines listed are its entries in that order; from
\* then on, all through the apply loop, the plan and its order stay as listed.
C7_PlanSorted ==
    /\ [](pc = "confirm" =>
            /\ Ascending(AbsolutePosixOf(fs_plans, 1))
            /\ Len(displayed) = Len(fs_plans)
            /\ \A i \in DOMAIN fs_plans : displayed[i].path = AsPosix(fs_plans[i].path))
    /\ [](Listed => Len(displayed) = Len(fs_plans) /\ apply_i <= Len(fs_plans))
    /\ [][Listed => (Listed' /\ fs_plans' = fs_plans /\ displayed' = displayed)]_vars

\* the apply loop runs on a plan whose jobs were expanded in descending order
C7_Witness ==
    /\ pc = "apply"
    /\ apply_i >= 1
    /\ Len(job_paths) >= 2
    /\ StrLess(AsPosix(job_paths[2]), AsPosix(job_paths[1]))

\* the script path of the k-th pair in pipeline-major order
ExpectedJobPath(k) ==
    LET pipe == pipeline_ids[((k - 1) \div Len(subjects)) + 1]
        sub  == subjects[((k - 1) % Len(subjects)) + 1]
    IN  Child(PathOut(pipe, sub, k - 1), NAME_JOB)

\* C8: the jobs are the pairs (pipeline, subject) in pipeline-major order,
\* |pipelines| * |subjects| of them, and run.sh holds the interpreter line
\* and then one sbatch line per job in that order.
C8_ExpansionOrder ==
    /\ \A k \in DOMAIN job_paths : job_paths[k] = ExpectedJobPath(k)
    /\ Len(job_paths) = idx
    /\ Assembled => Len(job_paths) = Len(pipeline_ids) * Len(subjects)
    /\ \A i \in DOMAIN fs_plans :
          IsExecutor(fs_plans[i]) =>
              LET lines == fs_plans[i].contents_text.lines
              IN  /\ Len(lines) = 1 + Len(job_paths)
                  /\ lines[1].cmd = SCHEBANG
                  /\ \A k \in DOMAIN job_paths :
                        lines[k + 1] = [cmd |-> "sbatch", arg |-> AsPosix(job_paths[k])]

\* a sorted plan of four jobs whose expansion order is not the sorted order
C8_Witness ==
    /\ pc = "confirm"
    /\ Len(pipeline_ids) = 2
    /\ Len(subjects) = 2
    /\ pipeline_ids[1] # pipeline_ids[2]
    /\ subjects[1] # subjects[2]
    /\ StrLess(AsPosix(job_paths[3]), AsPosix(job_paths[1]))

\* the number of plan entries that satisfy Is(_)
Count(Is(_)) == Cardinality({i \in DOMAIN fs_plans : Is(fs_plans[i])})

\* C9: after n jobs the plan holds n executable run_job.sh files, n output
\* directories, n wd directories if the working directory is kept and none
\* otherwise, and apart from run.sh and ecpac_call.sh nothing else.
C9_EntriesPerJob ==
    LET IsScript(plan) == IsJobScript(plan) /\ plan.is_file /\ plan.make_executable
        IsOut(plan)    == IsOutputDir(plan) /\ ~plan.is_file
        IsWd(plan)     == IsWorkingDir(plan) /\ ~plan.is_file
        IsOther(plan)  == ~IsJobEntry(plan)
    IN  /\ Count(IsScript) = idx
        /\ Count(IsOut) = idx
        /\ Count(IsWd) = IF save_working_dir THEN idx ELSE 0
        /\ Count(IsOther) = IF Assembled THEN 2 ELSE 0
        /\ Len(fs_plans) = Count(IsScript) + Count(IsOut) + Count(IsWd) + Count(IsOther)

\* three jobs planned with their working directories
C9_Witness ==
    /\ pc = "plan"
    /\ idx >= 3
    /\ save_working_dir
    /\ Len(fs_plans) = 3 * idx

\* plan.apply() has had its effect: the directory exists, or the file
\* holds the text and is executable if the entry asks for it
Applied(plan) ==
    IF plan.is_file
    THEN \E f \in fs_files :
            /\ f.path = Absolute(plan.path).parts
            /\ f.contents = <<plan.contents_text>>
            /\ plan.make_executable => "S_IEXEC" \in f.mode
    ELSE Absolute(plan.path).parts \in fs_dirs

\* nothing is on disk at the path of the entry
Absent(plan) ==
    /\ Absolute(plan.path).parts \notin fs_dirs
    /\ \A f \in fs_files : f.path # Absolute(plan.path).parts

\* the entry's path is the path, or above the path, of one of the first n entries
Shared(plan, n) ==
    \E i \in 1..n :
        Absolute(plan.path).parts \in Ancestors(Absolute(fs_plans[i].path).parts)

IsBlank(line) == Len(line) = 0
IsCall(line) ==
    /\ Len(line) > 0
    /\ line[1].lit \in {"singularity run --cleanenv ", "singularity run --cleanenv"}
IsHook(line, title) ==
    /\ Len(line) > 0
    /\ line[1].field = "data"
    /\ line[1].value.text.title = title

\* the before-hook stands ahead of the container invocation and the
\* after-hook behind it, with blank lines and nothing else in between
HooksPlaced(script) ==
    \E b \in DOMAIN script, c \in DOMAIN script, a \in DOMAIN script :
        /\ b + 1 < c
        /\ c + 1 < a
        /\ IsHook(script[b], "Starting ecpac run:")
        /\ IsCall(script[c])
        /\ IsHook(script[a], "Finished ecpac run:")
        /\ \A i \in (b + 1)..(c - 1) : IsBlank(script[i])
        /\ \A i \in (c + 1)..(a - 1) : IsBlank(script[i])

\* no hook line; the container invocation follows the one blank line behind
\* "cd" and is the last line of the script (a line feed ends it)
NoHooks(script) ==
    /\ \A i \in DOMAIN script :
          ~IsHook(script[i], "Starting ecpac run:")
          /\ ~IsHook(script[i], "Finished ecpac run:")
    /\ \E c \in DOMAIN script :
          /\ IsCall(script[c])
          /\ c > 2
          /\ IsBlank(script[c - 1])
          /\ ~IsBlank(script[c - 2])
          /\ c + 1 = Len(script)
          /\ IsBlank(script[c + 1])

\* the hooks the notifier supplies, as the list of lines job_template takes
HookLines(title) ==
    IF slack_webhook_available
    THEN slack_message_bash_mrkdwn([title |-> title])
    ELSE <<>>

\* job_template called with the values of a planned job
JobTemplateOf(job) ==
    job_template(
        [job_name |-> job.job_name, job_stdout_file |-> job.stdout_file,
         job_duration_limit |-> res_duration, job_threads |-> job.threads,
         job_memory_gb |-> res_memory_gb, wd |-> job.wd,
         path_input |-> job.path_input, path_output |-> job.path_output,
         cpac_threads |-> job.cpac_threads,
         cpac_memory_gb |-> job.cpac_memory_gb, path_image |-> job.image,
         analysis_level |-> job.analysis_level, subject |-> job.subject,
         pipeline |-> job.pipeline[2], pipeline_is_preconfig |-> use_preconfigs,
         cpac_sources |-> IF patch_cpac THEN Some(job.cpac_bin_opt) ELSE None,
         extra_cpac_args |-> job.extra_cpac_args,
         before_run |-> HookLines("Starting ecpac run:"),
         after_run |-> HookLines("Finished ecpac run:")])

\* job_template places the hooks as C11 says; main() renders the scripts
\* with format(BASH_TEMPLATE_JOB, ...) instead
JobTemplatePlacesHooks ==
    \A job \in JobTexts :
        IF slack_webhook_available
        THEN HooksPlaced(JobTemplateOf(job))
        ELSE NoHooks(JobTemplateOf(job))

\* C11: when the notifier supplies the hooks (SLACK_WEBHOOK_URL is set),
\* every generated run_job.sh holds the before-hook ahead of the container
\* invocation and the after-hook behind it, set off by blank lines; without
\* hooks it holds no hook line and no padding around the invocation.
C11_HooksInEveryJobScript ==
    \A job \in JobTexts :
        IF slack_webhook_available
        THEN HooksPlaced(format(BASH_TEMPLATE_JOB, job))
        ELSE NoHooks(format(BASH_TEMPLATE_JOB, job))

\* without hooks the scripts main() renders are as C11 says
C11_NoHooksNoPadding ==
    \A job \in JobTexts :
        ~slack_webhook_available => NoHooks(format(BASH_TEMPLATE_JOB, job))

\* the step applies entry number apply_i + 1 of the plan
Applies == pc = "apply" /\ apply_i' = apply_i + 1

\* C12: applying an entry is idempotent.  On the disk it has just been
\* applied to, the entry is accepted again and applying it again changes
\* neither the directories nor the files; the file it wrote holds the text
\* once, keeps every permission bit it had (those of a new file if it was
\* not there) and has the execute bit exactly if the entry asks for it or the
\* file had it.  When the plan holds the same entry twice, the step that
\* applies it the second time leaves the disk as it was.
C12_ApplyIdempotent ==
    /\ [][Applies =>
            LET plan == fs_plans[apply_i + 1]
                path == Absolute(plan.path).parts
            IN  /\ ApplyAccepts(plan, fs_dirs', fs_files')
                /\ ApplyDirs(plan, fs_dirs') = fs_dirs'
                /\ ApplyFiles(plan, fs_files') = fs_files'
                /\ plan.is_file =>
                      \E f \in fs_files' :
                          /\ f.path = path
                          /\ f.contents = <<plan.contents_text>>
                          /\ ModeAt(fs_files, path) \subseteq f.mode
                          /\ f.mode \ ModeAt(fs_files, path) \subseteq {"S_IEXEC"}
                          /\ "S_IEXEC" \in f.mode <=>
                                (plan.make_executable
                                 \/ "S_IEXEC" \in ModeAt(fs_files, path))]_vars
    /\ [][(Applies /\ apply_i >= 1
           /\ fs_plans[apply_i].path = fs_plans[apply_i + 1].path
           /\ fs_plans[apply_i] = fs_plans[apply_i + 1]) =>
            (fs_dirs' = fs_dirs /\ fs_files' = fs_files)]_vars

\* a file entry that does not ask for the execute bit has been applied twice
\* to a file that was there with another text and a bit of its own
C12_Witness ==
    /\ pc = "launch"
    /\ apply_i = 2
    /\ fs_plans[1] = fs_plans[2]
    /\ fs_plans[2].is_file
    /\ ~fs_plans[2].make_executable
    /\ \E f \in fs_files :
          /\ f.path = Absolute(fs_plans[2].path).parts
          /\ f.contents = <<fs_plans[2].contents_text>>
          /\ f.mode = CreateMode \cup {"S_IXGRP"}

\* the number that a string of digits denotes
DigitValue(c) == Ord[c] - Ord["0"]
RECURSIVE Number(_)
Number(digits) ==
    IF Len(digits) = 0 THEN 0
    ELSE 10 * Number(SubSeq(digits, 1, Len(digits) - 1)) + DigitValue(digits[Len(digits)])

\* the places where character c stands in a string
Places(str, c) == {i \in DOMAIN str : str[i] = c}

\* a decimal numeral "ddd" or "ddd.ddd" denotes exactly the integer n
DenotesInteger(str, n) ==
    IF Places(str, ".") = {} THEN Number(str) = n
    ELSE LET dot == CHOOSE i \in Places(str, ".") : TRUE
         IN  /\ Number(SubSeq(str, 1, dot - 1)) = n
             /\ Number(SubSeq(str, dot + 1, Len(str))) = 0

\* C13: for every memory_gb > 0, fractions included, the value on the
\* "#SBATCH --mem" line is round(job_memory_gb * 1000): whole megabytes.
C13_MemIsRoundedMegabytes ==
    mb_text # None =>
        DenotesInteger(mb_text[1], round(JobMemoryGb(gb_value) * 1000, GbScale))

\* for requests of whole megabytes the value denotes that many megabytes
C13_WholeMegabytes ==
    (mb_text # None /\ (gb_value * 1000) % GbScale = 0) =>
        DenotesInteger(mb_text[1], (gb_value * 1000) \div GbScale)

\* the fields of "HH:MM:SS"
HmsFields(str) ==
    LET colons == Places(str, ":")
        first == CHOOSE i \in colons : \A j \in colons : i <= j
        last == CHOOSE i \in colons : \A j \in colons : i >= j
    IN  <<SubSeq(str, 1, first - 1), SubSeq(str, first + 1, last - 1),
          SubSeq(str, last + 1, Len(str))>>

\* C14: for every duration >= 0, fractions of a second included, the limit
\* is rendered as zero-padded HH:MM:SS with MM and SS between 00 and 59 and
\* HH * 3600 + MM * 60 + SS equal to the whole seconds of the duration.
C14_HmsFieldsInRange ==
    hms_text # None =>
        /\ Cardinality(Places(hms_text[1], ":")) = 2
        /\ LET hms == HmsFields(hms_text[1])
           IN  /\ \A k \in 1..3 : Len(hms[k]) >= 2
               /\ Len(hms[2]) = 2 /\ Number(hms[2]) \in 0..59
               /\ Len(hms[3]) = 2 /\ Number(hms[3]) \in 0..59
               /\ Number(hms[1]) * 3600 + Number(hms[2]) * 60 + Number(hms[3])
                     = td_value \div SecScale

\* for durations of whole seconds the rendering is as C14 says
C14_WholeSeconds ==
    (hms_text # None /\ td_value % SecScale = 0) => C14_HmsFieldsInRange

\* the directory of the k-th job: <output>/<run_id>/<pipe_id>/<subject>
JobDir(k) == Absolute(Parent(job_paths[k])).parts

\* no two of the jobs planned so far have the same directory
JobDirsDistinct ==
    \A i \in DOMAIN job_paths, j \in DOMAIN job_paths :
        i # j => JobDir(i) # JobDir(j)

\* no two run_job.sh entries and no two output/ entries of the plan have the
\* same path
JobEntriesDistinct ==
    \A i \in DOMAIN fs_plans, j \in DOMAIN fs_plans :
        (/\ i # j
         /\ IsJobScript(fs_plans[i]) \/ IsOutputDir(fs_plans[i])
         /\ IsJobScript(fs_plans[j]) \/ IsOutputDir(fs_plans[j]))
        => Absolute(fs_plans[i].path).parts # Absolute(fs_plans[j].path).parts

\* the step writes a job script where no job script has been written
NoScriptOverwritten ==
    (Applies /\ IsJobScript(fs_plans[apply_i + 1])) =>
        \A f \in fs_files : f.path # Absolute(fs_plans[apply_i + 1].path).parts

\* C15: for all accepted pipeline and subject lists, those that repeat a
\* preset name or a subject included, the directories of the jobs are
\* pairwise distinct: no two run_job.sh or output/ entries share a path, and
\* applying the plan never writes one job's script over another's.
C15_JobDirsDistinct ==
    /\ [](JobDirsDistinct /\ JobEntriesDistinct)
    /\ [][NoScriptOverwritten]_vars

\* the directories are distinct when the pipelines are configuration files,
\* and when no preset name and no subject is repeated
C15_DistinctWithoutRepeats ==
    (\/ ~use_preconfigs
     \/ /\ \A i \in DOMAIN pipeline_ids, j \in DOMAIN pipeline_ids :
              i # j => pipeline_ids[i] # pipeline_ids[j]
        /\ \A i \in DOMAIN subjects, j \in DOMAIN subjects :
              i # j => subjects[i] # subjects[j])
    => JobDirsDistinct /\ JobEntriesDistinct

=============================================================================
